---- MODULE Spec2Model ----
(***************************************************************************)
(* A model of swift/trainers/rlhf_trainer/grpo_trainer.py (GRPOTrainer).   *)
(*                                                                         *)
(* Five specifications share the module:                                   *)
(*   Spec          the training step (_prepare_inputs, compute_loss) run   *)
(*                 by N data-parallel processes that meet at collectives;  *)
(*   SpecInit      GRPOTrainer.__init__ run by the N processes;            *)
(*   SpecTemplate  the _template_context scope around a body that may      *)
(*                 raise;                                                  *)
(*   SpecAdvantage the reward gather and the group-relative advantage      *)
(*                 computation over arbitrary rewards;                     *)
(*   SpecGenerate  the generation stage of the local backend, with the     *)
(*                 template's post-encode hooks and a generation that may  *)
(*                 raise.                                                  *)
(* Real numbers are fixed-point integers in units of 1e-4 (the epsilon of  *)
(* the advantage formula).                                                 *)
(***************************************************************************)
EXTENDS Integers, Sequences, FiniteSets, TLC

VARIABLES
    mode,        \* which specification's machine is running
    cfg,         \* the arguments the trainer was constructed with (args, kwargs)
    pc,          \* per process: position in __init__ / _prepare_inputs / compute_loss
    waiting,     \* per process: the collective it has entered and not yet left
    trace,       \* per process: the collectives entered during the current call
    global_step, \* self.state.global_step
    calls,       \* number of _prepare_inputs calls started so far
    last_loaded, \* per process: self._last_loaded_step
    engine,      \* the vLLM engine of the main process: weights version, pushes made
    moves,       \* per process: the global steps at which _move_model_to_vllm ran
    inputs,      \* per process: the local shard (inputs), one record per row
    gathered,    \* per process: all_inputs / gathered reward rows / gathered log columns
    outputs,     \* per process: outputs of the generation stage
    completions, \* per process: the completion texts of its shard (line 246)
    rewards_per_func, \* per process: the local reward matrix, one row per sample
    rewards,     \* per process: the global reward vector after the gather
    advantages,  \* per process: the advantages of its shard
    jsonl,       \* completions.jsonl: the tables appended so far
    err,         \* per process: the exception raised, or "none"
    trainer,     \* per process: the fields __init__ has set on self
    template     \* the template object: mode, max_length, and the scope's saved values

vars == <<mode, cfg, pc, waiting, trace, global_step, calls, last_loaded, engine,
          moves, inputs, gathered, outputs, completions, rewards_per_func, rewards,
          advantages, jsonl, err, trainer, template>>

-----------------------------------------------------------------------------
(* Bounds of the model *)

MaxProcs == 2
MaxBatch == 2
MaxStep == 2
MaxCalls == 3
MaxLoggingSteps == 2
MaxLen == 2
MaxEncodes == 2
MaxScopes == 2
MaxDevices == 2

(* Program constants *)

MainProcess == 0
MinGenerations == 2
InitialLoadedStep == 0
EpsDenominator == 10000

None == "None"
RewardVals == {1, 3, 5}

-----------------------------------------------------------------------------
(* Sequences and fixed-point helpers *)

RECURSIVE SumSeq(_)
SumSeq(s) == IF s = <<>> THEN 0 ELSE Head(s) + SumSeq(Tail(s))

RECURSIVE Concat(_)
Concat(ss) == IF ss = <<>> THEN <<>> ELSE Head(ss) \o Concat(Tail(ss))

Abs(x) == IF x < 0 THEN -x ELSE x

\* truncating division, as a float quotient rounded toward zero at the 1e-4 digit
TruncDiv(a, b) == IF a < 0 THEN -((-a) \div b) ELSE a \div b

RECURSIVE SqrtSearch(_, _, _)
SqrtSearch(n, lo, hi) ==
    IF lo >= hi THEN lo
    ELSE LET mid == (lo + hi + 1) \div 2
         IN IF mid * mid <= n THEN SqrtSearch(n, mid, hi) ELSE SqrtSearch(n, lo, mid - 1)

\* floor of the square root
Sqrt(n) == SqrtSearch(n, 0, IF n < 46340 THEN n ELSE 46340)

\* Python's s[a:b] on a 1-based sequence
Slice(s, a, b) ==
    LET hi == IF b > Len(s) THEN Len(s) ELSE b
    IN IF a >= hi THEN <<>> ELSE SubSeq(s, a + 1, hi)

Procs(n) == 0 .. (n - 1)

\* accelerate's gather / gather_object: the per-process lists concatenated rank-major
GatherRankMajor(parts, n) == Concat([k \in 1 .. n |-> parts[k - 1]])

-----------------------------------------------------------------------------
(* The advantage computation, lines 262-274 *)

\* (rewards_per_func * reward_weights.unsqueeze(0)).sum(dim=1)
WeightedRewards(matrix, weights) ==
    [i \in 1 .. Len(matrix) |->
        SumSeq([j \in 1 .. Len(weights) |-> matrix[i][j] * weights[j]])]

\* a reshape that takes every (B/g)-th element instead of g consecutive ones
ViewStrided(r, g) ==
    [k \in 1 .. (Len(r) \div g) |-> [j \in 1 .. g |-> r[(j - 1) * (Len(r) \div g) + k]]]

\* rewards.view(-1, g): row k holds the elements (k-1)*g+1 .. k*g
View(r, g) == [k \in 1 .. (Len(r) \div g) |-> SubSeq(r, (k - 1) * g + 1, k * g)]

\* .mean(dim=1), in units of 1e-4
MeanRows(rows) == [k \in 1 .. Len(rows) |-> (SumSeq(rows[k]) * EpsDenominator) \div Len(rows[k])]

\* the population estimator (divisor g), as .std(dim=1, unbiased=False) would give
StdRowPopulation(row) ==
    LET g == Len(row)
        S == SumSeq(row)
        N == SumSeq([i \in 1 .. g |-> (g * row[i] - S) * (g * row[i] - S)])
        D == g * g * g
    IN 10 * Sqrt((N \div D) * 1000000 + ((N % D) * 1000000) \div D)

\* .std(dim=1): torch's default is the unbiased estimator (divisor g - 1).
\* Computed exactly from the integer rewards: var = sum((g*r - S)^2) / (g^2 (g-1)),
\* in units of 1e-6, whose root is in units of 1e-3.
StdRow(row) ==
    LET g == Len(row)
        S == SumSeq(row)
        N == SumSeq([i \in 1 .. g |-> (g * row[i] - S) * (g * row[i] - S)])
        D == g * g * (g - 1)
    IN 10 * Sqrt((N \div D) * 1000000 + ((N % D) * 1000000) \div D)

StdRows(rows) == [k \in 1 .. Len(rows) |-> StdRow(rows[k])]

\* .repeat_interleave(g, dim=0)
RepeatInterleave(s, g) == [i \in 1 .. (Len(s) * g) |-> s[((i - 1) \div g) + 1]]

\* (rewards - mean) / (std + 1e-4), in units of 1e-4
Normalize(r, means, stds) ==
    [i \in 1 .. Len(r) |->
        TruncDiv((r[i] * EpsDenominator - means[i]) * EpsDenominator, stds[i] + 1)]

\* a slice that forgets the rank offset
ProcessSliceNoOffset(s, rank, n) == Slice(s, 0, n)

\* slice(process_index * len(inputs), (process_index + 1) * len(inputs))
ProcessSlice(s, rank, n) == Slice(s, rank * n, (rank + 1) * n)

-----------------------------------------------------------------------------
(* SpecAdvantage: the reward gather and the advantage computation over     *)
(* arbitrary rewards                                                       *)

\* the values of num_generations that __init__ accepts for a global batch size
PossibleValues(gbs) == {n \in MinGenerations .. gbs : gbs % n = 0}

Idle == [p \in {} |-> 0]

RewardRows(b) == [1 .. b -> {<<v>> : v \in RewardVals}]

InitAdvantage ==
    /\ mode = "advantage"
    /\ \E n \in 1 .. MaxProcs, b \in 1 .. MaxBatch :
          /\ \E g \in PossibleValues(n * b) :
                cfg = [num_processes |-> n, per_device_train_batch_size |-> b,
                       num_generations |-> g, reward_weights |-> <<1>>]
          /\ rewards_per_func \in [Procs(n) -> RewardRows(b)]
          /\ pc = [p \in Procs(n) |-> "gather_rewards"]
          /\ rewards = [p \in Procs(n) |-> <<>>]
          /\ advantages = [p \in Procs(n) |-> None]
    /\ waiting = Idle /\ trace = Idle /\ global_step = 0 /\ calls = 0
    /\ last_loaded = Idle /\ engine = None /\ moves = Idle /\ inputs = Idle
    /\ gathered = Idle /\ outputs = Idle /\ completions = Idle /\ jsonl = <<>> /\ err = Idle
    /\ trainer = Idle /\ template = None

\* line 262-264: gather(rewards_per_func), then the weighted sum over the columns
AdvGatherRewards ==
    /\ mode = "advantage"
    /\ \A p \in DOMAIN pc : pc[p] = "gather_rewards"
    /\ LET all == GatherRankMajor(rewards_per_func, cfg.num_processes)
       IN rewards' = [p \in DOMAIN pc |-> WeightedRewards(all, cfg.reward_weights)]
    /\ pc' = [p \in DOMAIN pc |-> "advantages"]
    /\ UNCHANGED <<mode, cfg, waiting, trace, global_step, calls, last_loaded, engine,
                   moves, inputs, gathered, outputs, completions, rewards_per_func, advantages,
                   jsonl, err, trainer, template>>

\* lines 267-274
AdvantageRecord(r, g, rank, n) ==
    LET means == RepeatInterleave(MeanRows(View(r, g)), g)
        stds == RepeatInterleave(StdRows(View(r, g)), g)
    IN [mean_grouped_rewards |-> means,
        std_grouped_rewards |-> stds,
        advantages |-> ProcessSlice(Normalize(r, means, stds), rank, n)]

AdvCompute(p) ==
    /\ mode = "advantage"
    /\ pc[p] = "advantages"
    /\ advantages' = [advantages EXCEPT
          ![p] = AdvantageRecord(rewards[p], cfg.num_generations, p,
                                 Len(rewards_per_func[p]))]
    /\ pc' = [pc EXCEPT ![p] = "done"]
    /\ UNCHANGED <<mode, cfg, waiting, trace, global_step, calls, last_loaded, engine,
                   moves, inputs, gathered, outputs, completions, rewards_per_func,
                   rewards, jsonl, err, trainer, template>>

NextAdvantage ==
    \/ AdvGatherRewards
    \/ \E p \in DOMAIN pc : AdvCompute(p)

SpecAdvantage == InitAdvantage /\ [][NextAdvantage]_vars

-----------------------------------------------------------------------------
(* SpecInit: GRPOTrainer.__init__, lines 35-167, run by every process      *)

\* The reward_funcs argument: a list of items, or a single value that is not a list.
\* An item is "orm" (a name registered in orms), "callable", "unknown" (a string
\* that is not registered) or "None".
RewardFuncArgs ==
    {[is_list |-> FALSE, value |-> "None"],
     [is_list |-> FALSE, value |-> "callable"],
     [is_list |-> TRUE, value |-> <<>>],
     [is_list |-> TRUE, value |-> <<"orm">>],
     [is_list |-> TRUE, value |-> <<"callable", "unknown">>]}

\* args.reward_weights is Optional: <<>> is None, <<w>> is the list w
RewardWeightArgs == {<<>>, <<<<1>>>>, <<<<1, 1>>>>}

\* args.vllm_device: 'auto' or 'cuda:<index>'
VllmDevices ==
    {[kind |-> "auto", index |-> 0]}
        \cup {[kind |-> "cuda", index |-> k] : k \in 0 .. MaxDevices}

VllmArgs ==
    {[use_vllm |-> FALSE, vllm_available |-> TRUE, device_count |-> 1,
      vllm_device |-> [kind |-> "auto", index |-> 0]]}
    \cup {[use_vllm |-> TRUE, vllm_available |-> FALSE, device_count |-> 1,
           vllm_device |-> [kind |-> "auto", index |-> 0]]}
    \cup {[use_vllm |-> TRUE, vllm_available |-> TRUE, device_count |-> dc,
           vllm_device |-> d] : dc \in 1 .. MaxDevices, d \in VllmDevices}

EvalArgs(bt) ==
    {[eval_strategy |-> "no", per_device_eval_batch_size |-> bt]}
    \cup {[eval_strategy |-> "steps", per_device_eval_batch_size |-> be] :
             be \in 1 .. MaxBatch}

InitConstruct ==
    /\ mode = "init"
    /\ \E n \in 1 .. MaxProcs, bt \in 1 .. MaxBatch :
          /\ \E g \in 1 .. (n * bt + 1), rf \in RewardFuncArgs, rm \in BOOLEAN,
                rw \in RewardWeightArgs, v \in VllmArgs, ev \in EvalArgs(bt) :
                cfg = [num_processes |-> n, per_device_train_batch_size |-> bt,
                       per_device_eval_batch_size |-> ev.per_device_eval_batch_size,
                       eval_strategy |-> ev.eval_strategy,
                       num_generations |-> g, reward_funcs |-> rf,
                       has_reward_model |-> rm, reward_weights |-> rw,
                       use_vllm |-> v.use_vllm, vllm_available |-> v.vllm_available,
                       device_count |-> v.device_count, vllm_device |-> v.vllm_device]
          /\ pc = [p \in Procs(n) |-> "init_rewards"]
          /\ waiting = [p \in Procs(n) |-> "none"]
          /\ err = [p \in Procs(n) |-> "none"]
          /\ trainer = [p \in Procs(n) |-> [reward_funcs |-> <<>>, reward_weights |-> <<>>,
                                             num_generations |-> 0, has_engine |-> FALSE]]
          /\ last_loaded = [p \in Procs(n) |-> None]
    /\ engine = None
    /\ trace = Idle /\ global_step = 0 /\ calls = 0 /\ moves = Idle /\ inputs = Idle
    /\ gathered = Idle /\ outputs = Idle /\ completions = Idle /\ jsonl = <<>>
    /\ rewards_per_func = Idle /\ rewards = Idle /\ advantages = Idle
    /\ template = None

InitFrame ==
    UNCHANGED <<mode, cfg, trace, global_step, calls, moves, inputs, gathered, outputs,
                completions, rewards_per_func, rewards, advantages, jsonl, template>>

Raise(p, e) ==
    /\ err' = [err EXCEPT ![p] = e]
    /\ pc' = [pc EXCEPT ![p] = "failed"]

\* lines 46-47: a value that is not a list is wrapped in one
ListOf(arg) == IF arg.is_list THEN arg.value ELSE <<arg.value>>

\* lines 49-59: an item that is neither registered in orms nor callable
Unrecognized(items) == \E i \in 1 .. Len(items) : items[i] \notin {"orm", "callable"}

\* lines 61-65: the reward model is appended to the list (reward_funcs and
\* self.reward_funcs are the same list object)
RewardSources(c) ==
    ListOf(c.reward_funcs) \o (IF c.has_reward_model THEN <<"model">> ELSE <<>>)

\* lines 46-81
InitRewards(p) ==
    /\ mode = "init"
    /\ pc[p] = "init_rewards"
    /\ IF ListOf(cfg.reward_funcs) # <<>> /\ Unrecognized(ListOf(cfg.reward_funcs))
         THEN Raise(p, "ValueError: reward_function is not implemented") /\ UNCHANGED trainer
       ELSE IF RewardSources(cfg) = <<>>
         THEN Raise(p, "ValueError: You must specify reward_funcs or reward_model")
              /\ UNCHANGED trainer
       ELSE IF cfg.reward_weights # <<>>
               /\ Len(cfg.reward_weights[1]) # Len(RewardSources(cfg))
         THEN Raise(p, "ValueError: Number of reward weights must match") /\ UNCHANGED trainer
       ELSE /\ trainer' = [trainer EXCEPT
                   ![p].reward_funcs = RewardSources(cfg),
                   ![p].reward_weights =
                       IF cfg.reward_weights # <<>> THEN cfg.reward_weights[1]
                       ELSE [i \in 1 .. Len(RewardSources(cfg)) |-> 1],
                   ![p].num_generations = cfg.num_generations]
            /\ pc' = [pc EXCEPT ![p] = "init_batch"]
            /\ UNCHANGED err
    /\ UNCHANGED <<waiting, last_loaded, engine>>
    /\ InitFrame

\* a check that reuses the train batch size for the evaluation check
BatchSizesAcceptedTrainOnly(c) ==
    LET gbs == c.per_device_train_batch_size * c.num_processes
    IN IF c.num_generations \notin PossibleValues(gbs) THEN "train"
       ELSE IF c.eval_strategy # "no" /\ c.num_generations \notin PossibleValues(gbs)
         THEN "eval"
       ELSE "ok"

\* lines 87-102: which of the two checks rejects the configuration
BatchSizesAccepted(c) ==
    LET gbs == c.per_device_train_batch_size * c.num_processes
        egbs == c.per_device_eval_batch_size * c.num_processes
    IN IF c.num_generations \notin PossibleValues(gbs) THEN "train"
       ELSE IF c.eval_strategy # "no" /\ c.num_generations \notin PossibleValues(egbs)
         THEN "eval"
       ELSE "ok"

\* lines 85-102
InitBatch(p) ==
    /\ mode = "init"
    /\ pc[p] = "init_batch"
    /\ CASE BatchSizesAccepted(cfg) = "train" ->
              Raise(p, "ValueError: The global train batch size must be evenly divisible")
         [] BatchSizesAccepted(cfg) = "eval" ->
              Raise(p, "ValueError: The global eval batch size must be evenly divisible")
         [] OTHER -> pc' = [pc EXCEPT ![p] = "init_vllm"] /\ UNCHANGED err
    /\ UNCHANGED <<waiting, last_loaded, engine, trainer>>
    /\ InitFrame

\* lines 109-115: 'auto' is the training device when there is one device, and the
\* device after the training processes' otherwise
ResolveDevice(c) ==
    IF c.vllm_device.kind = "auto"
    THEN IF c.device_count = 1 THEN [kind |-> "cuda", index |-> MainProcess]
         ELSE [kind |-> "cuda", index |-> c.num_processes]
    ELSE c.vllm_device

\* lines 117-118
DeviceUnavailable(c) ==
    /\ ResolveDevice(c).kind \in {"cuda", "npu"}
    /\ ResolveDevice(c).index >= c.device_count

\* lines 104-150 up to the call of wait_for_everyone, and lines 151-153
InitVllm(p) ==
    /\ mode = "init"
    /\ pc[p] = "init_vllm"
    /\ IF ~cfg.use_vllm
         THEN /\ pc' = [pc EXCEPT ![p] = "init_rest"]
              /\ trainer' = [trainer EXCEPT ![p].has_engine = TRUE]
              /\ UNCHANGED <<err, waiting, last_loaded, engine>>
       ELSE IF ~cfg.vllm_available
         THEN /\ Raise(p, "ImportError: vLLM is not available")
              /\ UNCHANGED <<waiting, last_loaded, engine, trainer>>
       ELSE IF p = MainProcess /\ DeviceUnavailable(cfg)
         THEN /\ Raise(p, "ValueError: The requested device for vllm is not available")
              /\ UNCHANGED <<waiting, last_loaded, engine, trainer>>
       ELSE /\ trainer' = [trainer EXCEPT ![p].has_engine = (p = MainProcess)]
            /\ engine' = IF p = MainProcess
                          THEN [device |-> ResolveDevice(cfg), weights |-> InitialLoadedStep]
                          ELSE engine
            /\ last_loaded' = [last_loaded EXCEPT ![p] = InitialLoadedStep]
            /\ waiting' = [waiting EXCEPT ![p] = "wait_for_everyone"]
            /\ pc' = [pc EXCEPT ![p] = "barrier"]
            /\ UNCHANGED err
    /\ InitFrame

\* line 150: wait_for_everyone returns once every process has called it
InitBarrier ==
    /\ mode = "init"
    /\ \A p \in DOMAIN pc : waiting[p] = "wait_for_everyone"
    /\ waiting' = [p \in DOMAIN pc |-> "none"]
    /\ pc' = [p \in DOMAIN pc |-> "init_rest"]
    /\ UNCHANGED <<err, last_loaded, engine, trainer>>
    /\ InitFrame

\* lines 154-167
InitRest(p) ==
    /\ mode = "init"
    /\ pc[p] = "init_rest"
    /\ pc' = [pc EXCEPT ![p] = "constructed"]
    /\ UNCHANGED <<err, waiting, last_loaded, engine, trainer>>
    /\ InitFrame

NextInit ==
    \/ \E p \in DOMAIN pc : InitRewards(p)
    \/ \E p \in DOMAIN pc : InitBatch(p)
    \/ \E p \in DOMAIN pc : InitVllm(p)
    \/ InitBarrier
    \/ \E p \in DOMAIN pc : InitRest(p)

SpecInit == InitConstruct /\ [][NextInit]_vars

-----------------------------------------------------------------------------
(* Claims about construction (under SpecInit) *)

Failed(p) == err[p] # "none"

\* C5: every fatal configuration error is raised before any process has entered a
\* distributed collective: no process waits at the barrier of __init__ while another
\* process has failed with a configuration error.
C5_NoWaitWhileFailed ==
    mode = "init" =>
        \A p, q \in DOMAIN pc : ~(Failed(p) /\ waiting[q] = "wait_for_everyone")

TrainDivisible(c) ==
    (c.per_device_train_batch_size * c.num_processes) % c.num_generations = 0

EvalDivisible(c) ==
    c.eval_strategy # "no" =>
        (c.per_device_eval_batch_size * c.num_processes) % c.num_generations = 0

PastBatchChecks(p) == pc[p] \in {"init_vllm", "barrier", "init_rest", "constructed"}

\* C7: a process gets past the batch-size checks of __init__ (and so can end up
\* constructed) only if the global train batch size, and with evaluation enabled the
\* global eval batch size, is a multiple of num_generations; a configuration that
\* violates either fails at the checks with a ValueError.
C7_BatchDivisible ==
    mode = "init" =>
        \A p \in DOMAIN pc :
            /\ PastBatchChecks(p) => TrainDivisible(cfg) /\ EvalDivisible(cfg)
            /\ pc[p] = "constructed" =>
                  trainer[p].num_generations \in
                      PossibleValues(cfg.per_device_train_batch_size * cfg.num_processes)
            /\ (~(TrainDivisible(cfg) /\ EvalDivisible(cfg)) /\ pc[p] = "failed") =>
                  err[p] \in {"ValueError: The global train batch size must be evenly divisible",
                              "ValueError: The global eval batch size must be evenly divisible",
                              "ValueError: reward_function is not implemented",
                              "ValueError: You must specify reward_funcs or reward_model",
                              "ValueError: Number of reward weights must match"}

\* a trainer constructed with evaluation enabled and an eval batch size that differs
\* from the train batch size
C7_Witness ==
    /\ mode = "init"
    /\ cfg.num_processes = 2
    /\ cfg.eval_strategy = "steps"
    /\ cfg.per_device_train_batch_size = 1
    /\ cfg.per_device_eval_batch_size = 2
    /\ cfg.num_generations = 2
    /\ \A p \in DOMAIN pc : pc[p] = "constructed"

-----------------------------------------------------------------------------
(* SpecTemplate: the _template_context scope, lines 169-182, around the    *)
(* encoding of the batch (lines 228-230 and 250-252)                       *)

TemplateModes == {"pt", "vllm", "lmdeploy", "train", "rlhf"}
InferModes == {"vllm", "pt", "lmdeploy"}
\* max_length is Optional[int]: <<>> is None, <<n>> is n
NoLength == <<>>
MaxLengths == {NoLength} \cup {<<n>> : n \in 1 .. MaxLen}

\* Template.set_mode
SetMode(t, m) == [t EXCEPT !.mode = m]

Self == [p \in {MainProcess} |-> "none"]

InitTemplate ==
    /\ mode = "template"
    /\ \E m \in TemplateModes, l \in MaxLengths :
          template = [mode |-> m, max_length |-> l,
                      saved_mode |-> None, saved_max_length |-> NoLength,
                      entry_mode |-> None, entry_max_length |-> NoLength,
                      encoded |-> 0]
    /\ pc = [p \in {MainProcess} |-> "outside"]
    /\ err = Self
    /\ calls = 0
    /\ cfg = None /\ waiting = Idle /\ trace = Idle /\ global_step = 0
    /\ last_loaded = Idle /\ engine = None /\ moves = Idle /\ inputs = Idle
    /\ gathered = Idle /\ outputs = Idle /\ completions = Idle /\ jsonl = <<>>
    /\ rewards_per_func = Idle /\ rewards = Idle /\ advantages = Idle
    /\ trainer = Idle

TemplateFrame ==
    UNCHANGED <<mode, cfg, waiting, trace, global_step, last_loaded, engine, moves,
                inputs, gathered, outputs, completions, rewards_per_func, rewards,
                advantages, jsonl, trainer>>

\* code outside the scope (an engine's infer) leaves the template in its own mode
TmplOutside(m) ==
    /\ mode = "template"
    /\ pc[MainProcess] = "outside"
    /\ template.mode # m
    /\ template' = SetMode(template, m)
    /\ UNCHANGED <<pc, err, calls>>
    /\ TemplateFrame

\* lines 173-177: save, switch an inference mode to 'train', drop max_length
TmplEnter ==
    /\ mode = "template"
    /\ pc[MainProcess] = "outside"
    /\ calls < MaxScopes
    /\ LET saved == [template EXCEPT !.saved_max_length = template.max_length,
                                      !.saved_mode = template.mode,
                                      !.entry_max_length = template.max_length,
                                      !.entry_mode = template.mode,
                                      !.encoded = 0]
           moded == IF saved.mode \in InferModes THEN SetMode(saved, "train") ELSE saved
       IN template' = [moded EXCEPT !.max_length = NoLength]
    /\ calls' = calls + 1
    /\ pc' = [pc EXCEPT ![MainProcess] = "body"]
    /\ UNCHANGED err
    /\ TemplateFrame

\* line 229: template.encode(infer_request) returns
TmplEncode ==
    /\ mode = "template"
    /\ pc[MainProcess] = "body"
    /\ template.encoded < MaxEncodes
    /\ template' = [template EXCEPT !.encoded = template.encoded + 1]
    /\ UNCHANGED <<pc, err, calls>>
    /\ TemplateFrame

\* line 229-230: encode, data_collator or to_device raises
TmplRaise ==
    /\ mode = "template"
    /\ pc[MainProcess] = "body"
    /\ err' = [err EXCEPT ![MainProcess] = "Exception"]
    /\ pc' = [pc EXCEPT ![MainProcess] = "finally"]
    /\ UNCHANGED <<template, calls>>
    /\ TemplateFrame

\* line 230: the body ends
TmplBodyEnd ==
    /\ mode = "template"
    /\ pc[MainProcess] = "body"
    /\ template.encoded = MaxEncodes
    /\ pc' = [pc EXCEPT ![MainProcess] = "finally"]
    /\ UNCHANGED <<template, err, calls>>
    /\ TemplateFrame

\* a restore placed after the yield instead of in a finally clause
TmplFinallyOnSuccessOnly ==
    /\ mode = "template"
    /\ pc[MainProcess] = "finally"
    /\ template' = IF err[MainProcess] = "none"
                    THEN [SetMode(template, template.saved_mode)
                             EXCEPT !.max_length = template.saved_max_length]
                    ELSE template
    /\ pc' = [pc EXCEPT ![MainProcess] = "exited"]
    /\ UNCHANGED <<err, calls>>
    /\ TemplateFrame

\* lines 180-182: finally: set_mode(mode); max_length = max_length
TmplFinally ==
    /\ mode = "template"
    /\ pc[MainProcess] = "finally"
    /\ template' = [SetMode(template, template.saved_mode)
                       EXCEPT !.max_length = template.saved_max_length]
    /\ pc' = [pc EXCEPT ![MainProcess] = "exited"]
    /\ UNCHANGED <<err, calls>>
    /\ TemplateFrame

\* the caller goes on after a normal exit; an exception ends the step
TmplContinue ==
    /\ mode = "template"
    /\ pc[MainProcess] = "exited"
    /\ err[MainProcess] = "none"
    /\ pc' = [pc EXCEPT ![MainProcess] = "outside"]
    /\ UNCHANGED <<template, err, calls>>
    /\ TemplateFrame

NextTemplate ==
    \/ \E m \in InferModes : TmplOutside(m)
    \/ TmplEnter
    \/ TmplEncode
    \/ TmplRaise
    \/ TmplBodyEnd
    \/ TmplFinally
    \/ TmplContinue

SpecTemplate == InitTemplate /\ [][NextTemplate]_vars

-----------------------------------------------------------------------------
(* Claims about the template scope (under SpecTemplate) *)

InScope == mode = "template" /\ pc[MainProcess] \in {"body", "finally"}
Exited == mode = "template" /\ pc[MainProcess] = "exited"

\* C6: on every exit from the _template_context scope, normal or by an exception, the
\* template's mode and max_length are the values they had just before the scope was
\* entered; inside the scope max_length is None.
C6_TemplateRestored ==
    /\ InScope => template.max_length = NoLength
    /\ Exited => /\ template.mode = template.entry_mode
                 /\ template.max_length = template.entry_max_length

\* an exit by an exception of a scope entered in an inference mode with a max_length
C6_Witness ==
    /\ Exited
    /\ err[MainProcess] = "Exception"
    /\ template.entry_mode = "pt"
    /\ template.entry_max_length = <<1>>
    /\ template.encoded = 1

-----------------------------------------------------------------------------
(* Claims about the advantage computation (under SpecAdvantage) *)

Computed(p) == p \in DOMAIN pc /\ pc[p] = "done" /\ mode = "advantage"

Near(x, y, tol) == Abs(x - y) <= tol

Scenario ==
    /\ mode = "advantage"
    /\ cfg.num_processes = 2
    /\ cfg.per_device_train_batch_size = 2
    /\ cfg.num_generations = 2
    /\ \A p \in DOMAIN pc : Computed(p) /\ rewards[p] = <<1, 3, 5, 5>>

\* C8 as stated: in the scenario (2 processes, batch 2, num_generations 2, global
\* rewards [1, 3, 5, 5]) the group means are [2, 5], the group standard deviations
\* [1.0, 0.0] and the advantages [-1.0, 1.0, 0.0, 0.0] (each to within 0.01).
C8_ScenarioAsStated ==
    Scenario =>
        /\ \A p \in DOMAIN pc :
              /\ advantages[p].mean_grouped_rewards = <<20000, 20000, 50000, 50000>>
              /\ Near(advantages[p].std_grouped_rewards[1], 10000, 100)
              /\ Near(advantages[p].std_grouped_rewards[2], 10000, 100)
              /\ advantages[p].std_grouped_rewards[3] = 0
              /\ advantages[p].std_grouped_rewards[4] = 0
        /\ Near(advantages[0].advantages[1], -10000, 100)
        /\ Near(advantages[0].advantages[2], 10000, 100)
        /\ advantages[1].advantages = <<0, 0>>

\* C8 amended: in the scenario the group means are [2, 5], the group standard
\* deviations are [sqrt 2 = 1.4142, 0.0] (the sample estimator, divisor g - 1) and the
\* advantages are [-0.7071, 0.7071, 0.0, 0.0] (each to within 0.001); process 0 holds
\* the first two advantages and process 1 the last two.
C8_ScenarioAdvantages ==
    Scenario =>
        /\ \A p \in DOMAIN pc :
              /\ advantages[p].mean_grouped_rewards = <<20000, 20000, 50000, 50000>>
              /\ Near(advantages[p].std_grouped_rewards[1], 14142, 10)
              /\ Near(advantages[p].std_grouped_rewards[2], 14142, 10)
              /\ advantages[p].std_grouped_rewards[3] = 0
              /\ advantages[p].std_grouped_rewards[4] = 0
        /\ Near(advantages[0].advantages[1], -7071, 10)
        /\ Near(advantages[0].advantages[2], 7071, 10)
        /\ advantages[1].advantages = <<0, 0>>

C8_Witness == Scenario

\* the rows of the global reward vector that form group k (1-based)
GroupRows(k, g) == ((k - 1) * g + 1) .. (k * g)

ConstantGroup(r, k, g) == \A i, j \in GroupRows(k, g) : r[i] = r[j]

\* C9: for the accepted g and B (B % g = 0) the reward vector is split into B / g
\* groups of exactly g consecutive rows, and every row of a group whose rewards are
\* all equal gets advantage 0, whatever the other groups hold.
C9_ConstantGroupZero ==
    \A p \in DOMAIN pc : Computed(p) =>
        LET r == rewards[p]
            g == cfg.num_generations
            b == cfg.per_device_train_batch_size
            rows == View(r, g)
        IN /\ Len(r) % g = 0
           /\ Len(rows) = Len(r) \div g
           /\ \A k \in 1 .. Len(rows) :
                 /\ Len(rows[k]) = g
                 /\ \A j \in 1 .. g : rows[k][j] = r[(k - 1) * g + j]
           /\ Len(advantages[p].advantages) = b
           /\ \A j \in 1 .. b :
                 LET i == p * b + j
                     k == ((i - 1) \div g) + 1
                 IN ConstantGroup(r, k, g) => advantages[p].advantages[j] = 0

\* a constant group beside a group that is not constant, on a process that holds
\* rows of the constant group
C9_Witness ==
    /\ mode = "advantage"
    /\ cfg.num_processes = 2
    /\ cfg.num_generations = 2
    /\ Computed(0)
    /\ Computed(1)
    /\ Len(rewards[1]) = 4
    /\ ConstantGroup(rewards[1], 2, 2)
    /\ ~ConstantGroup(rewards[1], 1, 2)
    /\ rewards[1][3] = 3
    /\ advantages[1].advantages = <<0, 0>>
    /\ advantages[0].advantages[1] # 0

-----------------------------------------------------------------------------
(* Spec: the training step.  Every process runs _prepare_inputs (lines     *)
(* 184-308) and then compute_loss (lines 310-335); a process blocks in a   *)
(* collective until every process has entered the same one.                *)

\* the collectives, by call site
GatherInputs == "gather_object(inputs) line 195"
BroadcastOutputs == "broadcast_object_list(outputs) line 203"
GatherRewards == "gather(rewards_per_func) line 262"
GatherLogInputs == "gather_object(inputs) line 298"
GatherLogCompletions == "gather_object(completions) line 299"
GatherCompletionLength == "gather_for_metrics(completion_length) line 329"
GatherMeanKl == "gather_for_metrics(mean_kl) line 333"

\* message contents are <<kind, call, rank, row, weights>>
UserMessage(c, p, i) == [role |-> "user", content |-> <<"prompt", c, p, i, 0>>]
StaleReply(c, p, i) == [role |-> "assistant", content |-> <<"stale", c, p, i, 0>>]

\* the shard the data loader hands to process p: every second row still carries an
\* assistant reply from the dataset
NewInputs(c, p, b) ==
    [i \in 1 .. b |->
        [messages |-> <<UserMessage(c, p, i)>>
                        \o (IF i % 2 = 0 THEN <<StaleReply(c, p, i)>> ELSE <<>>)]]

\* engine.infer: one output per request, in the order of the requests, generated
\* from the prompt with the weights the engine holds
EngineInfer(rows, w) ==
    [k \in 1 .. Len(rows) |->
        [content |-> <<"completion", rows[k].messages[1].content[2],
                       rows[k].messages[1].content[3], rows[k].messages[1].content[4], w>>]]

\* InferRequest.remove_response: drop a trailing assistant message
RemoveResponse(messages) ==
    IF Len(messages) > 0 /\ messages[Len(messages)].role = "assistant"
    THEN SubSeq(messages, 1, Len(messages) - 1)
    ELSE messages

\* the reward source of the modelled run: one callable, scoring a completion by its
\* prompt
RewardFunc(content) == 1 + 2 * ((content[2] + content[3] + content[4]) % 3)

InitStep ==
    /\ mode = "step"
    /\ \E n \in 1 .. MaxProcs, b \in 1 .. MaxBatch :
          /\ \E g \in PossibleValues(n * b), v \in BOOLEAN, lc \in BOOLEAN,
                ls \in 1 .. MaxLoggingSteps :
                cfg = [num_processes |-> n, per_device_train_batch_size |-> b,
                       num_generations |-> g, reward_weights |-> <<1>>,
                       use_vllm |-> v, log_completions |-> lc, logging_steps |-> ls]
          /\ pc = [p \in Procs(n) |-> "call"]
          /\ waiting = [p \in Procs(n) |-> "none"]
          /\ trace = [p \in Procs(n) |-> <<>>]
          /\ last_loaded = [p \in Procs(n) |-> InitialLoadedStep]
          /\ moves = [p \in Procs(n) |-> <<>>]
          /\ inputs = [p \in Procs(n) |-> <<>>]
          /\ gathered = [p \in Procs(n) |-> <<>>]
          /\ outputs = [p \in Procs(n) |-> <<>>]
          /\ completions = [p \in Procs(n) |-> <<>>]
          /\ rewards_per_func = [p \in Procs(n) |-> <<>>]
          /\ rewards = [p \in Procs(n) |-> <<>>]
          /\ advantages = [p \in Procs(n) |-> None]
          /\ err = [p \in Procs(n) |-> "none"]
    /\ global_step = 0
    /\ calls = 0
    /\ engine = [weights |-> InitialLoadedStep, loads |-> <<>>]
    /\ jsonl = <<>>
    /\ trainer = Idle
    /\ template = None

Fixed == UNCHANGED <<mode, cfg, err, trainer, template>>

AllAt(k) == \A p \in DOMAIN pc : waiting[p] = k

\* entering a collective: the process blocks in it
Enter(p, k, at) ==
    /\ waiting' = [waiting EXCEPT ![p] = k]
    /\ trace' = [trace EXCEPT ![p] = Append(@, k)]
    /\ pc' = [pc EXCEPT ![p] = at]

\* a collective returns in every process once all of them have entered it
Return(k, to) ==
    /\ AllAt(k)
    /\ waiting' = [p \in DOMAIN pc |-> "none"]
    /\ pc' = [p \in DOMAIN pc |-> to]

\* the training loop calls training_step on every process: between two calls the
\* optimizer may have stepped (global_step + 1) or not (gradient accumulation); a
\* resumed run makes its first call at a global step above 0
StartCall ==
    /\ mode = "step"
    /\ \A p \in DOMAIN pc : pc[p] \in {"call", "done"}
    /\ calls < MaxCalls
    /\ \E adv \in {0, 1} :
          /\ adv = 1 => global_step < MaxStep
          /\ global_step' = global_step + adv
    /\ calls' = calls + 1
    /\ inputs' = [p \in DOMAIN pc |-> NewInputs(calls + 1, p, cfg.per_device_train_batch_size)]
    /\ pc' = [p \in DOMAIN pc |-> IF cfg.use_vllm THEN "sync" ELSE "generate"]
    /\ trace' = [p \in DOMAIN pc |-> <<>>]
    /\ gathered' = [p \in DOMAIN pc |-> <<>>]
    /\ outputs' = [p \in DOMAIN pc |-> <<>>]
    /\ completions' = [p \in DOMAIN pc |-> <<>>]
    /\ rewards_per_func' = [p \in DOMAIN pc |-> <<>>]
    /\ rewards' = [p \in DOMAIN pc |-> <<>>]
    /\ advantages' = [p \in DOMAIN pc |-> None]
    /\ UNCHANGED <<waiting, last_loaded, engine, moves, jsonl>>
    /\ Fixed

\* a guard that reloads on every call
NeedsSyncAlways(p) == TRUE

\* line 190
NeedsSync(p) == global_step # last_loaded[p]

\* a weight load made by whichever process runs the call
MoveModelToVllmAnyRank(p) ==
    /\ moves' = [moves EXCEPT ![p] = Append(@, [step |-> global_step, call |-> calls])]
    /\ engine' = [engine EXCEPT !.weights = global_step,
                                !.loads = Append(@, [rank |-> p, step |-> global_step])]

\* line 191: every process makes the call; the engine (self.engine, self.llm of
\* lines 135-147) exists on the main process only, which loads the weights into it
MoveModelToVllm(p) ==
    /\ moves' = [moves EXCEPT ![p] = Append(@, [step |-> global_step, call |-> calls])]
    /\ engine' = IF p = MainProcess
                 THEN [engine EXCEPT !.weights = global_step,
                                     !.loads = Append(@, [rank |-> p, step |-> global_step])]
                 ELSE engine

\* lines 188-192
SyncWeights(p) ==
    /\ mode = "step"
    /\ pc[p] = "sync"
    /\ IF NeedsSync(p)
       THEN /\ MoveModelToVllm(p)
            /\ last_loaded' = [last_loaded EXCEPT ![p] = global_step]
       ELSE UNCHANGED <<moves, engine, last_loaded>>
    /\ pc' = [pc EXCEPT ![p] = "gather_inputs"]
    /\ UNCHANGED <<waiting, trace, global_step, calls, inputs, gathered, outputs,
                   completions, rewards_per_func, rewards, advantages, jsonl>>
    /\ Fixed

\* line 195: the call of gather_object(inputs)
EnterGatherInputs(p) ==
    /\ mode = "step"
    /\ pc[p] = "gather_inputs"
    /\ Enter(p, GatherInputs, "in_gather_inputs")
    /\ UNCHANGED <<global_step, calls, last_loaded, engine, moves, inputs, gathered,
                   outputs, completions, rewards_per_func, rewards, advantages, jsonl>>
    /\ Fixed

\* line 195: all_inputs is the rank-major list of every shard
ReturnGatherInputs ==
    /\ mode = "step"
    /\ Return(GatherInputs, "infer")
    /\ gathered' = [p \in DOMAIN pc |-> GatherRankMajor(inputs, cfg.num_processes)]
    /\ UNCHANGED <<trace, global_step, calls, last_loaded, engine, moves, inputs,
                   outputs, completions, rewards_per_func, rewards, advantages, jsonl>>
    /\ Fixed

\* lines 196-203 up to the call of broadcast_object_list
VllmInfer(p) ==
    /\ mode = "step"
    /\ pc[p] = "infer"
    /\ outputs' = [outputs EXCEPT ![p] =
          IF p = MainProcess THEN EngineInfer(gathered[p], engine.weights)
          ELSE [k \in 1 .. Len(gathered[p]) |-> [content |-> <<None, 0, 0, 0, 0>>]]]
    /\ Enter(p, BroadcastOutputs, "in_broadcast")
    /\ UNCHANGED <<global_step, calls, last_loaded, engine, moves, inputs, gathered,
                   completions, rewards_per_func, rewards, advantages, jsonl>>
    /\ Fixed

\* line 203: every process receives the list of process 0
ReturnBroadcast ==
    /\ mode = "step"
    /\ Return(BroadcastOutputs, "slice")
    /\ outputs' = [p \in DOMAIN pc |-> outputs[MainProcess]]
    /\ UNCHANGED <<trace, global_step, calls, last_loaded, engine, moves, inputs,
                   gathered, completions, rewards_per_func, rewards, advantages, jsonl>>
    /\ Fixed

\* lines 205-213: the local engine generates from the live policy weights
LocalGenerate(p) ==
    /\ mode = "step"
    /\ pc[p] = "generate"
    /\ outputs' = [outputs EXCEPT ![p] = EngineInfer(inputs[p], global_step)]
    /\ pc' = [pc EXCEPT ![p] = "slice"]
    /\ UNCHANGED <<waiting, trace, global_step, calls, last_loaded, engine, moves,
                   inputs, gathered, completions, rewards_per_func, rewards,
                   advantages, jsonl>>
    /\ Fixed

\* lines 216-226: the local part of the outputs, appended to the messages
WithCompletions(rows, outs) ==
    [i \in 1 .. Len(outs) |->
        [messages |-> Append(RemoveResponse(rows[i].messages),
                             [role |-> "assistant", content |-> outs[i].content])]]

\* lines 216-262 up to the call of gather(rewards_per_func)
SliceAndScore(p) ==
    /\ mode = "step"
    /\ pc[p] = "slice"
    /\ LET local == IF cfg.use_vllm
                    THEN ProcessSlice(outputs[p], p, Len(inputs[p]))
                    ELSE outputs[p]
           rows == WithCompletions(inputs[p], local)
           texts == [i \in 1 .. Len(rows) |-> rows[i].messages[Len(rows[i].messages)].content]
       IN /\ outputs' = [outputs EXCEPT ![p] = local]
          /\ inputs' = [inputs EXCEPT ![p] = rows]
          /\ completions' = [completions EXCEPT ![p] = texts]
          /\ rewards_per_func' = [rewards_per_func EXCEPT ![p] =
                [i \in 1 .. Len(inputs[p]) |-> <<RewardFunc(texts[i])>>]]
    /\ Enter(p, GatherRewards, "in_gather_rewards")
    /\ UNCHANGED <<global_step, calls, last_loaded, engine, moves, gathered, rewards,
                   advantages, jsonl>>
    /\ Fixed

\* lines 262-264
ReturnGatherRewards ==
    /\ mode = "step"
    /\ Return(GatherRewards, "advantages")
    /\ rewards' = [p \in DOMAIN pc |->
          WeightedRewards(GatherRankMajor(rewards_per_func, cfg.num_processes),
                          cfg.reward_weights)]
    /\ UNCHANGED <<trace, global_step, calls, last_loaded, engine, moves, inputs,
                   gathered, outputs, completions, rewards_per_func, advantages, jsonl>>
    /\ Fixed

\* a logging test that only the main process passes
LoggingDueMainOnly(p) ==
    p = MainProcess /\ cfg.log_completions /\ global_step % cfg.logging_steps = 0

\* a logging test that ignores logging_steps
LoggingDueEveryStep(p) == cfg.log_completions

\* line 294
LoggingDue(p) == cfg.log_completions /\ global_step % cfg.logging_steps = 0

\* lines 267-298 up to the call of gather_object(inputs), or up to the return
ComputeAdvantages(p) ==
    /\ mode = "step"
    /\ pc[p] = "advantages"
    /\ advantages' = [advantages EXCEPT
          ![p] = AdvantageRecord(rewards[p], cfg.num_generations, p, Len(inputs[p]))]
    /\ IF LoggingDue(p)
       THEN Enter(p, GatherLogInputs, "in_log_inputs")
       ELSE pc' = [pc EXCEPT ![p] = "loss"] /\ UNCHANGED <<waiting, trace>>
    /\ UNCHANGED <<global_step, calls, last_loaded, engine, moves, inputs, gathered,
                   outputs, completions, rewards_per_func, rewards, jsonl>>
    /\ Fixed

\* line 298: the messages of every row without the last one
ReturnGatherLogInputs ==
    /\ mode = "step"
    /\ Return(GatherLogInputs, "log_completions")
    /\ LET all == GatherRankMajor(inputs, cfg.num_processes)
       IN gathered' = [p \in DOMAIN pc |->
             [messages |-> [k \in 1 .. Len(all) |->
                               SubSeq(all[k].messages, 1, Len(all[k].messages) - 1)],
              completion |-> <<>>]]
    /\ UNCHANGED <<trace, global_step, calls, last_loaded, engine, moves, inputs,
                   outputs, completions, rewards_per_func, rewards, advantages, jsonl>>
    /\ Fixed

\* line 299: the call of gather_object(completions)
EnterGatherLogCompletions(p) ==
    /\ mode = "step"
    /\ pc[p] = "log_completions"
    /\ Enter(p, GatherLogCompletions, "in_log_completions")
    /\ UNCHANGED <<global_step, calls, last_loaded, engine, moves, inputs, gathered,
                   outputs, completions, rewards_per_func, rewards, advantages, jsonl>>
    /\ Fixed

\* line 299
ReturnGatherLogCompletions ==
    /\ mode = "step"
    /\ Return(GatherLogCompletions, "append")
    /\ gathered' = [p \in DOMAIN pc |->
          [gathered[p] EXCEPT !.completion = GatherRankMajor(completions, cfg.num_processes)]]
    /\ UNCHANGED <<trace, global_step, calls, last_loaded, engine, moves, inputs,
                   outputs, completions, rewards_per_func, rewards, advantages, jsonl>>
    /\ Fixed

\* JsonlWriter.append: only the master process writes the line
JsonlAppend(p, table) ==
    jsonl' = IF p = MainProcess THEN Append(jsonl, [table EXCEPT !.by = p]) ELSE jsonl

\* lines 296-308: the table, the append, the return
AppendCompletions(p) ==
    /\ mode = "step"
    /\ pc[p] = "append"
    /\ JsonlAppend(p, [step |-> global_step,
                       messages |-> gathered[p].messages,
                       completion |-> gathered[p].completion,
                       reward |-> rewards[p],
                       by |-> None])
    /\ pc' = [pc EXCEPT ![p] = "loss"]
    /\ UNCHANGED <<waiting, trace, global_step, calls, last_loaded, engine, moves,
                   inputs, gathered, outputs, completions, rewards_per_func, rewards,
                   advantages>>
    /\ Fixed

\* compute_loss, lines 310-329 up to the call of gather_for_metrics
ComputeLoss(p) ==
    /\ mode = "step"
    /\ pc[p] = "loss"
    /\ Enter(p, GatherCompletionLength, "in_completion_length")
    /\ UNCHANGED <<global_step, calls, last_loaded, engine, moves, inputs, gathered,
                   outputs, completions, rewards_per_func, rewards, advantages, jsonl>>
    /\ Fixed

\* line 329
ReturnCompletionLength ==
    /\ mode = "step"
    /\ Return(GatherCompletionLength, "loss_kl")
    /\ UNCHANGED <<trace, global_step, calls, last_loaded, engine, moves, inputs,
                   gathered, outputs, completions, rewards_per_func, rewards,
                   advantages, jsonl>>
    /\ Fixed

\* lines 330-333 up to the second call of gather_for_metrics
ComputeLossKl(p) ==
    /\ mode = "step"
    /\ pc[p] = "loss_kl"
    /\ Enter(p, GatherMeanKl, "in_mean_kl")
    /\ UNCHANGED <<global_step, calls, last_loaded, engine, moves, inputs, gathered,
                   outputs, completions, rewards_per_func, rewards, advantages, jsonl>>
    /\ Fixed

\* lines 333-335
ReturnMeanKl ==
    /\ mode = "step"
    /\ Return(GatherMeanKl, "done")
    /\ UNCHANGED <<trace, global_step, calls, last_loaded, engine, moves, inputs,
                   gathered, outputs, completions, rewards_per_func, rewards,
                   advantages, jsonl>>
    /\ Fixed

Next ==
    \/ StartCall
    \/ \E p \in DOMAIN pc : SyncWeights(p)
    \/ \E p \in DOMAIN pc : EnterGatherInputs(p)
    \/ ReturnGatherInputs
    \/ \E p \in DOMAIN pc : VllmInfer(p)
    \/ ReturnBroadcast
    \/ \E p \in DOMAIN pc : LocalGenerate(p)
    \/ \E p \in DOMAIN pc : SliceAndScore(p)
    \/ ReturnGatherRewards
    \/ \E p \in DOMAIN pc : ComputeAdvantages(p)
    \/ ReturnGatherLogInputs
    \/ \E p \in DOMAIN pc : EnterGatherLogCompletions(p)
    \/ ReturnGatherLogCompletions
    \/ \E p \in DOMAIN pc : AppendCompletions(p)
    \/ \E p \in DOMAIN pc : ComputeLoss(p)
    \/ ReturnCompletionLength
    \/ \E p \in DOMAIN pc : ComputeLossKl(p)
    \/ ReturnMeanKl

Spec == InitStep /\ [][Next]_vars

-----------------------------------------------------------------------------
(* Claims about the training step (under Spec) *)

Stepping == mode = "step"

\* the process has left the generation stage of the current call
Generated(p) ==
    pc[p] \in {"in_gather_rewards", "advantages", "in_log_inputs", "log_completions",
               "in_log_completions", "append", "loss", "in_completion_length",
               "loss_kl", "in_mean_kl", "done"}

PromptOf(row) == row.messages[1].content

\* the completion text was generated from the prompt of the row
CompletionFor(text, row) ==
    /\ text[1] = "completion"
    /\ text[2] = PromptOf(row)[2]
    /\ text[3] = PromptOf(row)[3]
    /\ text[4] = PromptOf(row)[4]

\* C1: with the centralized backend, after the gather, the generation on the main
\* process, the broadcast and the slice, every process holds one completion per
\* prompt of its own shard, in the order of the shard.
C1_OwnShardInOrder ==
    (Stepping /\ cfg.use_vllm) =>
        \A p \in DOMAIN pc : Generated(p) =>
            /\ Len(outputs[p]) = cfg.per_device_train_batch_size
            /\ Len(inputs[p]) = cfg.per_device_train_batch_size
            /\ Len(completions[p]) = cfg.per_device_train_batch_size
            /\ \A i \in 1 .. Len(inputs[p]) :
                  /\ PromptOf(inputs[p][i]) = <<"prompt", calls, p, i, 0>>
                  /\ CompletionFor(outputs[p][i].content, inputs[p][i])
                  /\ completions[p][i] = outputs[p][i].content
                  /\ Len(inputs[p][i].messages) = 2
                  /\ inputs[p][i].messages[2] =
                        [role |-> "assistant", content |-> outputs[p][i].content]

\* the last of two processes holds the completions of its two prompts
C1_Witness ==
    /\ Stepping
    /\ cfg.use_vllm
    /\ cfg.num_processes = 2
    /\ cfg.per_device_train_batch_size = 2
    /\ Generated(1)
    /\ outputs[1][2].content = <<"completion", calls, 1, 2, global_step>>

PastGuard(p) == pc[p] \notin {"call", "sync"}

NoRepeat(s) == \A i, j \in 1 .. Len(s) : s[i].step = s[j].step => i = j

\* C2: with the centralized backend a process runs the weight push at most once per
\* global-step value; the guard pushes exactly when the global step differs from
\* _last_loaded_step, and once the guard is passed _last_loaded_step is the global
\* step.
C2_PushOncePerStep ==
    /\ [](Stepping /\ cfg.use_vllm =>
            /\ \A p \in DOMAIN pc : NoRepeat(moves[p])
            /\ NoRepeat(engine.loads)
            /\ \A p \in DOMAIN pc : PastGuard(p) => last_loaded[p] = global_step)
    /\ [][Stepping =>
            \A p \in DOMAIN pc :
                (pc[p] = "sync" /\ pc'[p] # "sync") =>
                    /\ (moves'[p] # moves[p]) <=> (global_step # last_loaded[p])
                    /\ (p = MainProcess) =>
                          ((engine'.loads # engine.loads) <=> (global_step # last_loaded[p]))
                    /\ last_loaded'[p] = global_step]_vars

\* the third call runs at the global step of the second, which pushed: no new push
C2_Witness ==
    /\ Stepping
    /\ cfg.use_vllm
    /\ calls = 3
    /\ global_step = 1
    /\ \A p \in DOMAIN pc : PastGuard(p)
    /\ moves[MainProcess] = <<[step |-> 1, call |-> 2]>>
    /\ engine.loads = <<[rank |-> MainProcess, step |-> 1]>>

\* C3 as stated: after the push all processes meet at a barrier before any of them
\* goes on to the gather: no process has entered the gather while another process
\* is still at the guard.
C3_BarrierBeforeGather ==
    (Stepping /\ cfg.use_vllm) =>
        \A p, q \in DOMAIN pc : waiting[p] = GatherInputs => pc[q] # "sync"

PastGather(p) == pc[p] \notin {"call", "sync", "gather_inputs", "in_gather_inputs"}

\* C3 amended: when the global step has advanced, only the main process loads the
\* weights into the engine; there is no barrier after the push, but the gather that
\* follows returns, and the main process generates, only after every process has
\* passed the guard, and the engine then holds the weights of the current global
\* step.
C3_PushByMainBeforeGeneration ==
    (Stepping /\ cfg.use_vllm) =>
        /\ \A k \in 1 .. Len(engine.loads) : engine.loads[k].rank = MainProcess
        /\ \A p \in DOMAIN pc : PastGather(p) =>
              /\ \A q \in DOMAIN pc : PastGuard(q) /\ last_loaded[q] = global_step
              /\ engine.weights = global_step
        /\ \A p \in DOMAIN pc : Generated(p) =>
              \A i \in 1 .. Len(outputs[p]) : outputs[p][i].content[5] = global_step

\* the main process has generated, after a push made at global step 1, while two
\* processes ran the guard
C3_Witness ==
    /\ Stepping
    /\ cfg.use_vllm
    /\ cfg.num_processes = 2
    /\ global_step = 1
    /\ pc[MainProcess] = "in_broadcast"
    /\ engine.loads = <<[rank |-> MainProcess, step |-> 1]>>
    /\ Len(moves[1]) = 1

IsPrefix(s, t) == Len(s) <= Len(t) /\ SubSeq(t, 1, Len(s)) = s

Blocked(p) == waiting[p] # "none"

\* the collectives of one call, in order
ExpectedTrace ==
    (IF cfg.use_vllm THEN <<GatherInputs, BroadcastOutputs>> ELSE <<>>)
    \o <<GatherRewards>>
    \o (IF cfg.log_completions /\ global_step % cfg.logging_steps = 0
        THEN <<GatherLogInputs, GatherLogCompletions>> ELSE <<>>)
    \o <<GatherCompletionLength, GatherMeanKl>>

\* C4: in every training step all processes enter the same collectives in the same
\* order (the prompt gather and the broadcast with the centralized backend, the
\* reward gather, the two logging gathers when logging is due, the two
\* gather_for_metrics of compute_loss), and no process is left blocked in a
\* collective that the others do not enter.
C4_SameCollectives ==
    Stepping =>
        /\ \A p, q \in DOMAIN pc : IsPrefix(trace[p], trace[q]) \/ IsPrefix(trace[q], trace[p])
        /\ \A p \in DOMAIN pc : IsPrefix(trace[p], ExpectedTrace)
        /\ \A p \in DOMAIN pc : pc[p] = "done" => trace[p] = ExpectedTrace
        /\ (\A p \in DOMAIN pc : Blocked(p) \/ pc[p] = "done") =>
              \A p, q \in DOMAIN pc : waiting[p] = waiting[q]

\* two processes finished a step that used all seven collectives
C4_Witness ==
    /\ Stepping
    /\ cfg.num_processes = 2
    /\ \A p \in DOMAIN pc : pc[p] = "done" /\ Len(trace[p]) = 7

-----------------------------------------------------------------------------
(* SpecGenerate: the generation stage of the local backend, lines 205-213, *)
(* run by every process on its own shard.  template[p].hooked is the set   *)
(* of models that carry the template's post-encode hook.                   *)

HookedModels == {{"model"}, {"model", "ref_model"}, {"model", "reward_model"}}

InitGenerate ==
    /\ mode = "generate"
    /\ \E n \in 1 .. MaxProcs, b \in 1 .. MaxBatch, mm \in BOOLEAN, h \in HookedModels :
          /\ cfg = [num_processes |-> n, per_device_train_batch_size |-> b,
                    use_vllm |-> FALSE, is_multimodal |-> mm]
          /\ pc = [p \in Procs(n) |-> "call"]
          /\ err = [p \in Procs(n) |-> "none"]
          /\ inputs = [p \in Procs(n) |-> <<>>]
          /\ outputs = [p \in Procs(n) |-> <<>>]
          /\ trainer = [p \in Procs(n) |-> [models |-> {}]]
          /\ template = [p \in Procs(n) |->
                [hooked |-> IF mm THEN h ELSE {}, entry_hooked |-> IF mm THEN h ELSE {}]]
    /\ global_step = 0
    /\ calls = 0
    /\ waiting = Idle /\ trace = Idle /\ last_loaded = Idle /\ engine = None
    /\ moves = Idle /\ gathered = Idle /\ completions = Idle /\ jsonl = <<>>
    /\ rewards_per_func = Idle /\ rewards = Idle /\ advantages = Idle

GenerateFrame ==
    UNCHANGED <<mode, cfg, waiting, trace, last_loaded, engine, moves, gathered,
                completions, rewards_per_func, rewards, advantages, jsonl>>

\* Template.remove_post_encode_hook: the hooks are removed from every model that
\* carries one, and those models are returned
RemovePostEncodeHook(t) == [t EXCEPT !.hooked = {}]

\* Template.register_post_encode_hook(models): the hook is put on every given model
RegisterPostEncodeHook(t, models) == [t EXCEPT !.hooked = t.hooked \cup models]

\* the training loop calls training_step on every process
GenStartCall ==
    /\ mode = "generate"
    /\ \A p \in DOMAIN pc : pc[p] \in {"call", "returned"}
    /\ calls < MaxCalls
    /\ \E adv \in {0, 1} :
          /\ adv = 1 => global_step < MaxStep
          /\ global_step' = global_step + adv
    /\ calls' = calls + 1
    /\ inputs' = [p \in DOMAIN pc |-> NewInputs(calls + 1, p, cfg.per_device_train_batch_size)]
    /\ outputs' = [p \in DOMAIN pc |-> <<>>]
    /\ template' = [p \in DOMAIN pc |-> [template[p] EXCEPT !.entry_hooked = template[p].hooked]]
    /\ pc' = [p \in DOMAIN pc |-> "generate"]
    /\ UNCHANGED <<err, trainer>>
    /\ GenerateFrame

\* lines 206-208
GenRemoveHooks(p) ==
    /\ mode = "generate"
    /\ pc[p] = "generate"
    /\ IF cfg.is_multimodal
       THEN /\ trainer' = [trainer EXCEPT ![p].models = template[p].hooked]
            /\ template' = [template EXCEPT ![p] = RemovePostEncodeHook(template[p])]
       ELSE UNCHANGED <<trainer, template>>
    /\ pc' = [pc EXCEPT ![p] = "infer"]
    /\ UNCHANGED <<global_step, calls, inputs, outputs, err>>
    /\ GenerateFrame

\* lines 209-211: engine.infer returns the outputs
GenInfer(p) ==
    /\ mode = "generate"
    /\ pc[p] = "infer"
    /\ outputs' = [outputs EXCEPT ![p] = EngineInfer(inputs[p], global_step)]
    /\ pc' = [pc EXCEPT ![p] = "register"]
    /\ UNCHANGED <<global_step, calls, inputs, err, trainer, template>>
    /\ GenerateFrame

\* lines 209-211: engine.infer (or the unwrap context) raises; the exception leaves
\* _prepare_inputs, nothing in it catches it
GenInferRaise(p) ==
    /\ mode = "generate"
    /\ pc[p] = "infer"
    /\ err' = [err EXCEPT ![p] = "Exception"]
    /\ pc' = [pc EXCEPT ![p] = "failed"]
    /\ UNCHANGED <<global_step, calls, inputs, outputs, trainer, template>>
    /\ GenerateFrame

\* lines 212-213, and the stage is left
GenRegisterHooks(p) ==
    /\ mode = "generate"
    /\ pc[p] = "register"
    /\ template' = IF cfg.is_multimodal
                   THEN [template EXCEPT
                            ![p] = RegisterPostEncodeHook(template[p], trainer[p].models)]
                   ELSE template
    /\ pc' = [pc EXCEPT ![p] = "returned"]
    /\ UNCHANGED <<global_step, calls, inputs, outputs, err, trainer>>
    /\ GenerateFrame

NextGenerate ==
    \/ GenStartCall
    \/ \E p \in DOMAIN pc : GenRemoveHooks(p)
    \/ \E p \in DOMAIN pc : GenInfer(p)
    \/ \E p \in DOMAIN pc : GenInferRaise(p)
    \/ \E p \in DOMAIN pc : GenRegisterHooks(p)

SpecGenerate == InitGenerate /\ [][NextGenerate]_vars

-----------------------------------------------------------------------------
(* Claims about the local generation stage (under SpecGenerate) *)

\* the generation stage of the process has ended, by a return or by an exception
GenerationLeft(p) == pc[p] \in {"returned", "failed"}

\* C11: in the local backend with a multimodal policy, once the generation stage is
\* left, whether generation returned or raised, the post-encode hooks are on the
\* models that carried them before the stage: they are never left disabled.
C11_HooksRestoredOnEveryExit ==
    (mode = "generate" /\ cfg.is_multimodal) =>
        \A p \in DOMAIN pc : GenerationLeft(p) =>
            template[p].hooked = template[p].entry_hooked

\* the part of C11 the code keeps: after a generation that returned, the hooks are on
\* the models that carried them before
C11_HooksRestoredOnReturn ==
    (mode = "generate" /\ cfg.is_multimodal) =>
        \A p \in DOMAIN pc : pc[p] = "returned" =>
            /\ template[p].hooked = template[p].entry_hooked
            /\ template[p].hooked = trainer[p].models

====
